---- MODULE Spec2Model ----
(***************************************************************************)
(* Call signalling and chat transport of the React client:                 *)
(*   client-react/src/Signaling.js  (the call state machine)               *)
(*   client-react/src/Chat.js       (the WebSocket transport, signal relay)*)
(*                                                                         *)
(* React state (useState) is read by a handler through the closure of the  *)
(* render that created the handler.  Handlers reached through the DOM or   *)
(* through the imperative ref run with the latest render, so they read the *)
(* current state.  The callbacks installed on an RTCPeerConnection and the *)
(* continuation of an async function keep the closure of the render in     *)
(* which startCall / answerCall was invoked: the captured values are kept  *)
(* with the call slot (capInCall, capRemote).  Refs (useRef) are shared    *)
(* and read at the time of use.                                            *)
(***************************************************************************)
EXTENDS Integers, Sequences, FiniteSets, TLC

VARIABLES
    callStatus,        \* useState('idle')            Signaling.js:8
    isInCall,          \* useState(false)             Signaling.js:5
    isConnecting,      \* useState(false)             Signaling.js:6
    isMuted,           \* useState(false)             Signaling.js:7
    remoteUserId,      \* useState(null)              Signaling.js:9
    voiceCallActive,   \* Chat's useState(false), set through onCallStateChange
    localStreamRef,    \* useRef(null): slot of the stream held, or NoHandle
    remoteStreamRef,   \* useRef(null): slot of the remote stream held
    peerConnectionRef, \* useRef(null): slot of the connection held
    task,              \* per slot: the async startCall / answerCall invocation
    stream,            \* per slot: the MediaStream getUserMedia returned
    pcs,               \* per slot: the RTCPeerConnection createPeerConnection made
    remote,            \* per slot: the remote MediaStream delivered by ontrack
    calls,             \* number of startCall / answerCall invocations so far
    wsState,           \* WebSocket.readyState of Chat's socket
    connectionStatus,  \* Chat's useState('disconnected')
    reconnectTimer,    \* the setTimeout of websocket.onclose: idle, armed, fired
    mounted,           \* the component tree is mounted (no render has thrown)
    messages,          \* Chat's useState([]): the timeline
    typingUsers,       \* Chat's useState([]): the typing registry
    typingSent,        \* history: is_typing of the last typing envelope put on
                       \* the wire, "none" before the first
    newMessage,        \* Chat's useState(''): the content of the input
    isTyping,          \* Chat's useState(false)
    typingTimeoutRef,  \* useRef(null): the stop-typing timeout, none or armed
    posts,             \* sendMessage invocations awaiting their fetch
    last               \* history: the handler or callback that ran last, the
                       \* handles its handleEndCall found in the refs, the
                       \* signal it handed to onSignal, whether it alerted

vars == << callStatus, isInCall, isConnecting, isMuted, remoteUserId,
           voiceCallActive, localStreamRef, remoteStreamRef, peerConnectionRef,
           task, stream, pcs, remote, calls,
           wsState, connectionStatus, reconnectTimer,
           mounted, messages, typingUsers, typingSent,
           newMessage, isTyping, typingTimeoutRef, posts, last >>

sigVars == << callStatus, isInCall, isConnecting, isMuted, remoteUserId,
              voiceCallActive >>
refVars == << localStreamRef, remoteStreamRef, peerConnectionRef >>
wsVars  == << wsState, connectionStatus, reconnectTimer >>
chatVars == << mounted, messages, typingUsers, typingSent,
              newMessage, isTyping, typingTimeoutRef, posts >>

(***************************************************************************)
(* Bounds of the model.                                                    *)
(***************************************************************************)
\* startCall / answerCall invocations in one behaviour
MaxCalls == 2
\* sendMessage invocations whose fetch is in flight at one time
MaxPosts == 2
\* length of the timeline
MaxMessages == 2
\* the value null of a ref
NoHandle == 0
\* the value null of remoteUserId / target_user
NULL == "null"
\* remote party identifiers carried as from_user
Users == {"u2"}
\* the argument of startCall: the Start Call button passes none, so it is
\* the default null
CallTargets == {NULL}

Slots == 1..MaxCalls

NoTask == [kind |-> "none", step |-> "none", target |-> NULL,
           capInCall |-> FALSE, capRemote |-> NULL]
NoStream == [state |-> "none", stops |-> 0, enabled |-> TRUE]
NoPc == [state |-> "none", closes |-> 0, localDesc |-> FALSE,
         remoteDesc |-> FALSE, candidates |-> FALSE]
NoRemote == [state |-> "none", stops |-> 0]

(***************************************************************************)
(* Chat.handleSignal, the onSignal prop: the signal goes on the wire only  *)
(* when the socket is open; otherwise it is dropped without notice.        *)
(***************************************************************************)
NoSignal == [type |-> "none", target_user |-> NULL, wire |-> FALSE]

Signal(type, target) ==
    [type |-> type, target_user |-> target, wire |-> wsState = "OPEN"]

handleSignal(type, target) == Signal(type, target)

\* the history record of a handler that does not run handleEndCall
Ran(op, sig, alert) ==
    [op |-> op, local |-> NoHandle, remote |-> NoHandle, pc |-> NoHandle,
     signal |-> sig, alert |-> alert]

\* the history record of a handler of an inbound signal: p is the connection
\* it called setRemoteDescription / addIceCandidate on, NoHandle if it did not
Applied(op, p) == [Ran(op, NoSignal, FALSE) EXCEPT !.pc = p]

Init ==
    /\ callStatus = "idle"
    /\ isInCall = FALSE
    /\ isConnecting = FALSE
    /\ isMuted = FALSE
    /\ remoteUserId = NULL
    /\ voiceCallActive = FALSE
    /\ localStreamRef = NoHandle
    /\ remoteStreamRef = NoHandle
    /\ peerConnectionRef = NoHandle
    /\ task = [i \in Slots |-> NoTask]
    /\ stream = [i \in Slots |-> NoStream]
    /\ pcs = [i \in Slots |-> NoPc]
    /\ remote = [i \in Slots |-> NoRemote]
    /\ calls = 0
    /\ wsState = "CONNECTING"
    /\ connectionStatus = "disconnected"
    /\ reconnectTimer = "idle"
    /\ mounted = TRUE
    /\ messages = << >>
    /\ typingUsers = << >>
    /\ typingSent = "none"
    /\ newMessage = ""
    /\ isTyping = FALSE
    /\ typingTimeoutRef = "none"
    /\ posts = 0
    /\ last = Ran("mount", NoSignal, FALSE)

(***************************************************************************)
(* handleEndCall, as a function of the closure values it reads: isInCall   *)
(* and remoteUserId of the render that created it.                         *)
(***************************************************************************)
StopLocal(s) ==
    IF localStreamRef # NoHandle
    THEN [s EXCEPT ![localStreamRef].state = "stopped",
                   ![localStreamRef].stops = @ + 1]
    ELSE s

StopRemote(r) ==
    IF remoteStreamRef # NoHandle
    THEN [r EXCEPT ![remoteStreamRef].state = "stopped",
                   ![remoteStreamRef].stops = @ + 1]
    ELSE r

\* handleEndCall, had it dropped the connection without closing it
ClosePcForgotten(p) == p

ClosePc(p) ==
    IF peerConnectionRef # NoHandle
    THEN [p EXCEPT ![peerConnectionRef].closes = @ + 1]
    ELSE p

EndCallSignal(inCall, rem) ==
    IF inCall /\ rem # NULL THEN handleSignal("call-ended", rem) ELSE NoSignal

\* handleEndCall, had it left the handles in the refs after releasing them
handleEndCallKeepsRefs(op, inCall, rem, p) ==
    /\ stream' = StopLocal(stream)
    /\ remote' = StopRemote(remote)
    /\ pcs' = ClosePc(p)
    /\ UNCHANGED refVars
    /\ isInCall' = FALSE
    /\ isConnecting' = FALSE
    /\ callStatus' = "idle"
    /\ remoteUserId' = NULL
    /\ isMuted' = FALSE
    /\ voiceCallActive' = FALSE
    /\ last' = [op |-> op, local |-> localStreamRef, remote |-> remoteStreamRef,
                pc |-> peerConnectionRef, signal |-> EndCallSignal(inCall, rem),
                alert |-> FALSE]

handleEndCall(op, inCall, rem, p) ==
    /\ stream' = StopLocal(stream)
    /\ localStreamRef' = NoHandle
    /\ remote' = StopRemote(remote)
    /\ remoteStreamRef' = NoHandle
    /\ pcs' = ClosePc(p)
    /\ peerConnectionRef' = NoHandle
    /\ isInCall' = FALSE
    /\ isConnecting' = FALSE
    /\ callStatus' = "idle"
    /\ remoteUserId' = NULL
    /\ isMuted' = FALSE
    /\ voiceCallActive' = FALSE
    /\ last' = [op |-> op, local |-> localStreamRef, remote |-> remoteStreamRef,
                pc |-> peerConnectionRef, signal |-> EndCallSignal(inCall, rem),
                alert |-> FALSE]

(***************************************************************************)
(* startCall up to its first await.  The Start Call button is rendered     *)
(* only while neither isInCall nor isConnecting holds.                     *)
(***************************************************************************)
NewTask(kind, target) ==
    [kind |-> kind, step |-> "getUserMedia", target |-> target,
     capInCall |-> isInCall, capRemote |-> remoteUserId]

StartCall ==
    /\ ~isInCall /\ ~isConnecting
    /\ calls < MaxCalls
    /\ \E targetUserId \in CallTargets :
        /\ task' = [task EXCEPT ![calls + 1] = NewTask("start", targetUserId)]
        /\ remoteUserId' = targetUserId
    /\ calls' = calls + 1
    /\ isConnecting' = TRUE
    /\ callStatus' = "calling"
    /\ last' = Ran("startCall", NoSignal, FALSE)
    /\ UNCHANGED << isInCall, isMuted, voiceCallActive, refVars, stream, pcs,
                    remote, wsVars, chatVars >>

\* answerCall up to its first await
answerCall(fromUserId) ==
    /\ calls < MaxCalls
    /\ task' = [task EXCEPT ![calls + 1] = NewTask("answer", fromUserId)]
    /\ calls' = calls + 1
    /\ isConnecting' = TRUE
    /\ callStatus' = "connecting"
    /\ remoteUserId' = fromUserId
    /\ last' = Ran("offer", NoSignal, FALSE)
    /\ UNCHANGED << isInCall, isMuted, voiceCallActive, refVars, stream, pcs,
                    remote >>

\* the catch block of startCall / answerCall
CatchSetupError(i, op) ==
    /\ task' = [task EXCEPT ![i].step = "failed"]
    /\ isConnecting' = FALSE
    /\ callStatus' = "idle"
    /\ last' = Ran(op, NoSignal, TRUE)
    /\ UNCHANGED << isInCall, isMuted, remoteUserId, voiceCallActive, refVars,
                    stream, pcs, remote, calls, wsVars, chatVars >>

(***************************************************************************)
(* getUserMedia resolves: the stream is stored in localStreamRef, the      *)
(* connection is created and stored in peerConnectionRef, the tracks are   *)
(* added and the next await is entered.                                    *)
(***************************************************************************)
NextStepAfterMedia(kind) ==
    IF kind = "start" THEN "createOffer" ELSE "setRemoteDescription"

GetUserMediaResolve(i) ==
    /\ task[i].step = "getUserMedia"
    /\ stream' = [stream EXCEPT ![i].state = "live"]
    /\ localStreamRef' = i
    /\ pcs' = [pcs EXCEPT ![i].state = "new"]
    /\ peerConnectionRef' = i
    /\ task' = [task EXCEPT ![i].step = NextStepAfterMedia(task[i].kind)]
    /\ last' = Ran("getUserMedia", NoSignal, FALSE)
    /\ UNCHANGED << sigVars, remoteStreamRef, remote, calls, wsVars, chatVars >>

GetUserMediaReject(i) ==
    /\ task[i].step = "getUserMedia"
    /\ CatchSetupError(i, "getUserMedia-failed")

\* an operation of a connection completes only while the connection is open
PcOpen(i) == pcs[i].state # "none" /\ pcs[i].closes = 0

CreateOfferResolve(i) ==
    /\ task[i].step = "createOffer"
    /\ PcOpen(i)
    /\ task' = [task EXCEPT ![i].step = "setLocalDescription"]
    /\ last' = Ran("createOffer", NoSignal, FALSE)
    /\ UNCHANGED << sigVars, refVars, stream, pcs, remote, calls, wsVars, chatVars >>

\* pc.ontrack: applying a remote description delivers the remote stream
ontrack(r, i) == [r EXCEPT ![i].state = "live"]

SetRemoteDescriptionResolve(i) ==
    /\ task[i].step = "setRemoteDescription"
    /\ PcOpen(i)
    /\ pcs' = [pcs EXCEPT ![i].remoteDesc = TRUE]
    /\ remote' = ontrack(remote, i)
    /\ remoteStreamRef' = i
    /\ task' = [task EXCEPT ![i].step = "createAnswer"]
    /\ last' = Ran("setRemoteDescription", NoSignal, FALSE)
    /\ UNCHANGED << sigVars, localStreamRef, peerConnectionRef, stream, calls,
                    wsVars, chatVars >>

CreateAnswerResolve(i) ==
    /\ task[i].step = "createAnswer"
    /\ PcOpen(i)
    /\ task' = [task EXCEPT ![i].step = "setLocalDescription"]
    /\ last' = Ran("createAnswer", NoSignal, FALSE)
    /\ UNCHANGED << sigVars, refVars, stream, pcs, remote, calls, wsVars, chatVars >>

\* setLocalDescription resolves: the offer (startCall) or the answer
\* (answerCall) is handed to onSignal
DescriptionType(kind) == IF kind = "start" THEN "offer" ELSE "answer"

SetLocalDescriptionResolve(i) ==
    /\ task[i].step = "setLocalDescription"
    /\ PcOpen(i)
    /\ pcs' = [pcs EXCEPT ![i].localDesc = TRUE]
    /\ task' = [task EXCEPT ![i].step = "done"]
    /\ last' = Ran("setLocalDescription",
                   handleSignal(DescriptionType(task[i].kind), task[i].target),
                   FALSE)
    /\ UNCHANGED << sigVars, refVars, stream, remote, calls, wsVars, chatVars >>

NegotiationSteps ==
    {"createOffer", "setRemoteDescription", "createAnswer", "setLocalDescription"}

NegotiationReject(i) ==
    /\ task[i].step \in NegotiationSteps
    /\ CatchSetupError(i, "negotiation-failed")

(***************************************************************************)
(* handleRemoteSignal.  A webrtc_signal frame reaches it through           *)
(* websocket.onmessage and handleWebSocketMessage, so only while the       *)
(* socket is open; it runs with the latest render.                         *)
(***************************************************************************)
Inbound ==
    /\ mounted
    /\ wsState = "OPEN"
    /\ UNCHANGED << wsVars, chatVars >>

\* line 184: an offer or an answer is dropped when no connection is held
NoPeerConnection == peerConnectionRef = NoHandle

\* case 'offer': window.confirm decides between answerCall and call-rejected
RecvOffer(from_user, accept) ==
    /\ Inbound
    /\ IF NoPeerConnection
       THEN /\ last' = Ran("offer", NoSignal, FALSE)
            /\ UNCHANGED << sigVars, refVars, task, stream, pcs, remote, calls >>
       ELSE IF accept
       THEN answerCall(from_user)
       ELSE /\ last' = Ran("offer", handleSignal("call-rejected", from_user),
                            FALSE)
            /\ UNCHANGED << sigVars, refVars, task, stream, pcs, remote, calls >>

\* case 'answer', had it marked the call connected on applying the answer
RecvAnswerConnects(ok) ==
    /\ Inbound
    /\ IF NoPeerConnection \/ ~ok
       THEN UNCHANGED << pcs, remote, remoteStreamRef, callStatus >>
       ELSE /\ pcs[peerConnectionRef].closes = 0
            /\ pcs[peerConnectionRef].localDesc
            /\ ~pcs[peerConnectionRef].remoteDesc
            /\ pcs' = [pcs EXCEPT ![peerConnectionRef].remoteDesc = TRUE]
            /\ remote' = ontrack(remote, peerConnectionRef)
            /\ remoteStreamRef' = peerConnectionRef
            /\ callStatus' = "connected"
    /\ last' = Applied("answer", peerConnectionRef)
    /\ UNCHANGED << isInCall, isConnecting, isMuted, remoteUserId,
                    voiceCallActive, localStreamRef, peerConnectionRef, task,
                    stream, calls >>

\* case 'answer': setRemoteDescription on the connection held; it succeeds
\* only on a connection that has its local offer and no remote description
RecvAnswer(ok) ==
    /\ Inbound
    /\ IF NoPeerConnection \/ ~ok
       THEN UNCHANGED << pcs, remote, remoteStreamRef >>
       ELSE /\ pcs[peerConnectionRef].closes = 0
            /\ pcs[peerConnectionRef].localDesc
            /\ ~pcs[peerConnectionRef].remoteDesc
            /\ pcs' = [pcs EXCEPT ![peerConnectionRef].remoteDesc = TRUE]
            /\ remote' = ontrack(remote, peerConnectionRef)
            /\ remoteStreamRef' = peerConnectionRef
    /\ last' = Applied("answer", peerConnectionRef)
    /\ UNCHANGED << sigVars, localStreamRef, peerConnectionRef, task, stream,
                    calls >>

\* case 'ice-candidate', had it applied candidates only to a connected call
RecvIceCandidateWhenConnected(ok) ==
    /\ Inbound
    /\ IF peerConnectionRef = NoHandle \/ callStatus # "connected"
       THEN UNCHANGED pcs /\ last' = Applied("ice-candidate", NoHandle)
       ELSE /\ last' = Applied("ice-candidate", peerConnectionRef)
            /\ IF ok
               THEN /\ pcs[peerConnectionRef].remoteDesc
                    /\ pcs' = [pcs EXCEPT ![peerConnectionRef].candidates = TRUE]
               ELSE UNCHANGED pcs
    /\ UNCHANGED << sigVars, refVars, task, stream, remote, calls >>

\* case 'ice-candidate': addIceCandidate on the connection held; it
\* succeeds only on a connection that has a remote description
RecvIceCandidate(ok) ==
    /\ Inbound
    /\ IF peerConnectionRef = NoHandle \/ ~ok
       THEN UNCHANGED pcs
       ELSE /\ pcs[peerConnectionRef].closes = 0
            /\ pcs[peerConnectionRef].remoteDesc
            /\ pcs' = [pcs EXCEPT ![peerConnectionRef].candidates = TRUE]
    /\ last' = Applied("ice-candidate", peerConnectionRef)
    /\ UNCHANGED << sigVars, refVars, task, stream, remote, calls >>

\* case 'call-ended'
RecvCallEnded ==
    /\ Inbound
    /\ handleEndCall("call-ended", isInCall, remoteUserId, pcs)
    /\ UNCHANGED << task, calls >>

\* case 'call-rejected'
RecvCallRejected ==
    /\ Inbound
    /\ isConnecting' = FALSE
    /\ callStatus' = "idle"
    /\ last' = Ran("call-rejected", NoSignal, TRUE)
    /\ UNCHANGED << isInCall, isMuted, remoteUserId, voiceCallActive, refVars,
                    task, stream, pcs, remote, calls >>

(***************************************************************************)
(* The callbacks createPeerConnection installs.  They belong to the render *)
(* in which the connection's startCall / answerCall was invoked.  A closed *)
(* connection fires no event.                                              *)
(***************************************************************************)
\* pc.onicecandidate: candidates are gathered once the local description is set
PcIceCandidate(i) ==
    /\ PcOpen(i)
    /\ pcs[i].localDesc
    /\ last' = Ran("onicecandidate",
                   handleSignal("ice-candidate", task[i].capRemote), FALSE)
    /\ UNCHANGED << sigVars, refVars, task, stream, pcs, remote, calls, wsVars, chatVars >>

Negotiated(i) == pcs[i].localDesc /\ pcs[i].remoteDesc

\* pc.onconnectionstatechange, connectionState 'connected'
PcConnected(i) ==
    /\ PcOpen(i)
    /\ Negotiated(i)
    /\ pcs[i].state = "new"
    /\ pcs' = [pcs EXCEPT ![i].state = "connected"]
    /\ callStatus' = "connected"
    /\ isConnecting' = FALSE
    /\ isInCall' = TRUE
    /\ voiceCallActive' = TRUE
    /\ last' = Ran("onconnectionstatechange", NoSignal, FALSE)
    /\ UNCHANGED << isMuted, remoteUserId, refVars, task, stream, remote,
                    calls, wsVars, chatVars >>

\* pc.onconnectionstatechange, connectionState 'disconnected' or 'failed'
PcLost(i, state) ==
    /\ PcOpen(i)
    /\ Negotiated(i)
    /\ \/ state = "disconnected" /\ pcs[i].state = "connected"
       \/ state = "failed" /\ pcs[i].state \in {"new", "connected", "disconnected"}
    /\ handleEndCall("onconnectionstatechange", task[i].capInCall,
                     task[i].capRemote, [pcs EXCEPT ![i].state = state])
    /\ UNCHANGED << task, calls, wsVars, chatVars >>

(***************************************************************************)
(* The buttons.                                                            *)
(***************************************************************************)
\* End Call is rendered while isConnecting or isInCall
EndCall ==
    /\ isConnecting \/ isInCall
    /\ handleEndCall("endCall", isInCall, remoteUserId, pcs)
    /\ UNCHANGED << task, calls, wsVars, chatVars >>

\* toggleMute, had it flipped the track without updating muted
toggleMuteKeepsFlag ==
    /\ isInCall
    /\ IF localStreamRef # NoHandle
       THEN stream' = [stream EXCEPT ![localStreamRef].enabled = ~@]
       ELSE UNCHANGED stream
    /\ last' = Ran("toggleMute", NoSignal, FALSE)
    /\ UNCHANGED << sigVars, refVars, task, pcs, remote, calls, wsVars, chatVars >>

\* the mute button is rendered while isInCall; without a local stream the
\* click does nothing
toggleMute ==
    /\ isInCall
    /\ IF localStreamRef # NoHandle
       THEN /\ stream' = [stream EXCEPT ![localStreamRef].enabled = ~@]
            /\ isMuted' = stream[localStreamRef].enabled
       ELSE UNCHANGED << stream, isMuted >>
    /\ last' = Ran("toggleMute", NoSignal, FALSE)
    /\ UNCHANGED << callStatus, isInCall, isConnecting, remoteUserId,
                    voiceCallActive, refVars, task, pcs, remote, calls,
                    wsVars, chatVars >>

(***************************************************************************)
(* Chat's WebSocket.  The connection effect runs once: the socket is never *)
(* replaced.                                                               *)
(***************************************************************************)
callVars == << sigVars, refVars, task, stream, pcs, remote, calls >>

\* websocket.onopen
WsOpen ==
    /\ mounted
    /\ wsState = "CONNECTING"
    /\ wsState' = "OPEN"
    /\ connectionStatus' = "connected"
    /\ last' = Ran("onopen", NoSignal, FALSE)
    /\ UNCHANGED << reconnectTimer, callVars, chatVars >>

\* websocket.onerror: the connection has failed; the close event follows
WsError ==
    /\ mounted
    /\ wsState \in {"CONNECTING", "OPEN"}
    /\ wsState' = "CLOSED"
    /\ connectionStatus' = "error"
    /\ last' = Ran("onerror", NoSignal, FALSE)
    /\ UNCHANGED << reconnectTimer, callVars, chatVars >>

\* websocket.onclose, had it torn the call down
WsCloseEndsCall ==
    /\ mounted
    /\ reconnectTimer = "idle"
    /\ wsState' = "CLOSED"
    /\ connectionStatus' = "disconnected"
    /\ reconnectTimer' = "armed"
    /\ handleEndCall("onclose", FALSE, NULL, pcs)
    /\ UNCHANGED << task, calls, chatVars >>

\* websocket.onclose
WsClose ==
    /\ mounted
    /\ reconnectTimer = "idle"
    /\ wsState' = "CLOSED"
    /\ connectionStatus' = "disconnected"
    /\ reconnectTimer' = "armed"
    /\ last' = Ran("onclose", NoSignal, FALSE)
    /\ UNCHANGED << callVars, chatVars >>

\* the setTimeout callback of websocket.onclose, after the reconnect delay
ReconnectTimer ==
    /\ mounted
    /\ reconnectTimer = "armed"
    /\ reconnectTimer' = "fired"
    /\ connectionStatus' = "reconnecting"
    /\ last' = Ran("reconnect-timer", NoSignal, FALSE)
    /\ UNCHANGED << wsState, callVars, chatVars >>

Next ==
    \/ StartCall
    \/ \E i \in Slots : GetUserMediaResolve(i)
    \/ \E i \in Slots : GetUserMediaReject(i)
    \/ \E i \in Slots : CreateOfferResolve(i)
    \/ \E i \in Slots : SetRemoteDescriptionResolve(i)
    \/ \E i \in Slots : CreateAnswerResolve(i)
    \/ \E i \in Slots : SetLocalDescriptionResolve(i)
    \/ \E i \in Slots : NegotiationReject(i)
    \/ \E u \in Users, accept \in BOOLEAN : RecvOffer(u, accept)
    \/ \E ok \in BOOLEAN : RecvAnswer(ok)
    \/ \E ok \in BOOLEAN : RecvIceCandidate(ok)
    \/ RecvCallEnded
    \/ RecvCallRejected
    \/ \E i \in Slots : PcIceCandidate(i)
    \/ \E i \in Slots : PcConnected(i)
    \/ \E i \in Slots, state \in {"disconnected", "failed"} : PcLost(i, state)
    \/ EndCall
    \/ toggleMute
    \/ WsOpen
    \/ WsError
    \/ WsClose
    \/ ReconnectTimer

Spec == Init /\ [][Next]_vars

(***************************************************************************)
(* Chat: the envelopes it writes to the socket.  Every ws.send is guarded  *)
(* by ws && ws.readyState === WebSocket.OPEN; the envelope is recorded     *)
(* with whether it went on the wire.                                       *)
(***************************************************************************)
\* an envelope written without looking at the socket's readyState
EnvelopeUnguarded(type, data) ==
    [type |-> type, target_user |-> NULL, data |-> data, wire |-> TRUE]

Envelope(type, data) ==
    [type |-> type, target_user |-> NULL, data |-> data,
     wire |-> wsState = "OPEN"]

\* sendTypingIndicator
sendTypingIndicator(typing) == Envelope("typing", typing)

\* history: the is_typing of the last typing envelope on the wire after sig
TypingSentAfter(sig) ==
    IF sig.type = "typing" /\ sig.wire
    THEN (IF sig.data THEN "true" ELSE "false")
    ELSE typingSent

\* the values of the input: empty, blank, a text
Contents == {"", " ", "hi"}

\* String.prototype.trim, had it left blank content as it is
trimNothing(content) == content

trim(content) == IF content = " " THEN "" ELSE content

\* the sender of an inbound chat_message
Senders == {"agent"}

\* the user_id of an inbound typing_indicator
Typists == {"u2"}

\* an entry of the timeline
Message(sender, content) == [sender |-> sender, content |-> content]

\* the input is disabled unless the connection status is connected
InputEnabled == connectionStatus = "connected"

\* handleTyping, the onChange of the input
handleTyping(value) ==
    /\ mounted
    /\ InputEnabled
    /\ newMessage' = value
    /\ isTyping' = TRUE
    /\ typingTimeoutRef' = "armed"
    /\ last' = Ran("handleTyping",
                   IF ~isTyping THEN sendTypingIndicator(TRUE) ELSE NoSignal,
                   FALSE)
    /\ typingSent' = TypingSentAfter(last'.signal)
    /\ UNCHANGED << mounted, messages, typingUsers, posts, callVars, wsVars >>

\* the timeout set by handleTyping, one second after the last keystroke
TypingTimeout ==
    /\ mounted
    /\ typingTimeoutRef = "armed"
    /\ typingTimeoutRef' = "none"
    /\ isTyping' = FALSE
    /\ last' = Ran("typing-timeout", sendTypingIndicator(FALSE), FALSE)
    /\ typingSent' = TypingSentAfter(last'.signal)
    /\ UNCHANGED << mounted, messages, typingUsers, newMessage, posts,
                    callVars, wsVars >>

\* handleSubmit, the onSubmit of the form, as the handler is written: the
\* disabled attribute of the Send button is not part of it.  With content
\* sendMessage runs up to its await fetch, the input is cleared and a typing
\* stop is sent; isTyping and the typing timeout are left as they are.
handleSubmit ==
    /\ mounted
    /\ IF trim(newMessage) # ""
       THEN /\ posts < MaxPosts
            /\ posts' = posts + 1
            /\ newMessage' = ""
            /\ last' = Ran("handleSubmit", sendTypingIndicator(FALSE), FALSE)
            /\ typingSent' = TypingSentAfter(last'.signal)
       ELSE /\ last' = Ran("handleSubmit", NoSignal, FALSE)
            /\ UNCHANGED << posts, newMessage, typingSent >>
    /\ UNCHANGED << mounted, messages, typingUsers, isTyping, typingTimeoutRef,
                    callVars, wsVars >>

\* sendMessage after a fetch that returned response.ok
FetchOk ==
    /\ mounted
    /\ posts > 0
    /\ posts' = posts - 1
    /\ last' = Ran("sendMessage", Envelope("chat_message", "hi"), FALSE)
    /\ UNCHANGED << mounted, messages, typingUsers, typingSent, newMessage,
                    isTyping, typingTimeoutRef, callVars, wsVars >>

\* what makes sendMessage enter its catch: fetch rejects, the response is not ok
Reasons == {"network", "status"}

\* the catch of sendMessage, had it appended nothing to the timeline
FetchFailSilent(reason) ==
    /\ mounted
    /\ posts > 0
    /\ Len(messages) < MaxMessages
    /\ posts' = posts - 1
    /\ last' = Ran("sendMessage-failed", NoSignal, FALSE)
    /\ UNCHANGED << mounted, messages, typingUsers, typingSent, newMessage,
                    isTyping, typingTimeoutRef, callVars, wsVars >>

\* the catch of sendMessage: one system message with the error's text
FetchFail(reason) ==
    /\ mounted
    /\ posts > 0
    /\ Len(messages) < MaxMessages
    /\ posts' = posts - 1
    /\ messages' = Append(messages, Message("system", reason))
    /\ last' = Ran("sendMessage-failed", NoSignal, FALSE)
    /\ UNCHANGED << mounted, typingUsers, typingSent, newMessage, isTyping,
                    typingTimeoutRef, callVars, wsVars >>

\* an inbound frame is handled by onmessage of the open socket
Frame == mounted /\ wsState = "OPEN"

\* case 'chat_message', had it replaced the timeline by the new message
RecvChatMessageReplaces(sender) ==
    /\ Frame
    /\ Len(messages) < MaxMessages
    /\ messages' = << Message(sender, "hi") >>
    /\ last' = Ran("chat_message", NoSignal, FALSE)
    /\ UNCHANGED << mounted, typingUsers, typingSent, newMessage, isTyping,
                    typingTimeoutRef, posts, callVars, wsVars >>

\* handleWebSocketMessage, case 'chat_message' with a message
RecvChatMessage(sender) ==
    /\ Frame
    /\ Len(messages) < MaxMessages
    /\ messages' = Append(messages, Message(sender, "hi"))
    /\ last' = Ran("chat_message", NoSignal, FALSE)
    /\ UNCHANGED << mounted, typingUsers, typingSent, newMessage, isTyping,
                    typingTimeoutRef, posts, callVars, wsVars >>

\* case 'chat_message' of a frame without a message: the updater handed to
\* setMessages reads data.message.timestamp and throws while React renders,
\* outside the try of onmessage; no error boundary is mounted, the tree is
\* removed and the cleanup of the connection effect closes the socket
RecvChatMessageWithoutMessage ==
    /\ Frame
    /\ mounted' = FALSE
    /\ wsState' = "CLOSED"
    /\ last' = Ran("render-error", NoSignal, FALSE)
    /\ UNCHANGED << messages, typingUsers, typingSent, newMessage, isTyping,
                    typingTimeoutRef, posts, callVars, connectionStatus,
                    reconnectTimer >>

\* the ids of the typing registry
Ids(registry) == {registry[k] : k \in 1..Len(registry)}

\* handleTypingIndicator, had it added the id without looking for it
handleTypingIndicatorAppends(user_id, is_typing) ==
    /\ Frame
    /\ Len(typingUsers) <= Cardinality(Typists)
    /\ typingUsers' =
        IF is_typing
        THEN Append(typingUsers, user_id)
        ELSE SelectSeq(typingUsers, LAMBDA id : id # user_id)
    /\ last' = Ran("typing_indicator", NoSignal, FALSE)
    /\ UNCHANGED << mounted, messages, typingSent, newMessage, isTyping,
                    typingTimeoutRef, posts, callVars, wsVars >>

\* handleWebSocketMessage, case 'typing_indicator': handleTypingIndicator.
\* user_id is NULL for a frame that carries none.
handleTypingIndicator(user_id, is_typing) ==
    /\ Frame
    /\ typingUsers' =
        IF is_typing
        THEN (IF user_id \in Ids(typingUsers)
              THEN typingUsers
              ELSE Append(typingUsers, user_id))
        ELSE SelectSeq(typingUsers, LAMBDA id : id # user_id)
    /\ last' = Ran("typing_indicator", NoSignal, FALSE)
    /\ UNCHANGED << mounted, messages, typingSent, newMessage, isTyping,
                    typingTimeoutRef, posts, callVars, wsVars >>

\* frames that end in a console call: text JSON.parse rejects (the catch of
\* onmessage), an unknown type (default), and a case that only logs
LoggedFrames == {"unparsable", "unknown", "error"}

RecvLogged(frame) ==
    /\ Frame
    /\ last' = Ran(frame, NoSignal, FALSE)
    /\ UNCHANGED << chatVars, callVars, wsVars >>

\* handleWebSocketMessage, case 'webrtc_signal': handleRemoteSignal of the
\* Signaling that Chat renders
RecvWebrtcSignal ==
    \/ \E from_user \in Users, accept \in BOOLEAN : RecvOffer(from_user, accept)
    \/ \E ok \in BOOLEAN : RecvAnswer(ok)
    \/ \E ok \in BOOLEAN : RecvIceCandidate(ok)
    \/ RecvCallEnded
    \/ RecvCallRejected

\* the ping interval exists while ws is set and connectionStatus is connected
PingInterval == mounted /\ connectionStatus = "connected"

\* the ping callback, had it neither been cleared with the status nor
\* looked at the socket
PingUnguarded ==
    /\ mounted
    /\ last' = Ran("ping", [Envelope("ping", NULL) EXCEPT !.wire = TRUE], FALSE)
    /\ UNCHANGED << chatVars, callVars, wsVars >>

\* the setInterval callback of the ping effect
Ping ==
    /\ PingInterval
    /\ last' = Ran("ping", IF wsState = "OPEN" THEN Envelope("ping", NULL)
                           ELSE NoSignal, FALSE)
    /\ UNCHANGED << chatVars, callVars, wsVars >>

\* handleWebSocketMessage, case 'pong'
RecvPong ==
    /\ Frame
    /\ last' = Ran("pong", NoSignal, FALSE)
    /\ UNCHANGED << chatVars, callVars, wsVars >>

\* Signaling hands a signal to the onSignal prop
SignalTypes == {"offer", "answer", "ice-candidate", "call-ended", "call-rejected"}

onSignal(type, target) ==
    /\ mounted
    /\ last' = Ran("onSignal", handleSignal(type, target), FALSE)
    /\ UNCHANGED << chatVars, callVars, wsVars >>

\* Chat with its socket; of Signaling, the signals it hands to onSignal and
\* its handling of the inbound signals
ChatNext ==
    \/ WsOpen
    \/ WsError
    \/ WsClose
    \/ ReconnectTimer
    \/ \E value \in Contents : handleTyping(value)
    \/ TypingTimeout
    \/ handleSubmit
    \/ FetchOk
    \/ \E reason \in Reasons : FetchFail(reason)
    \/ \E sender \in Senders : RecvChatMessage(sender)
    \/ RecvChatMessageWithoutMessage
    \/ \E user_id \in Typists \cup {NULL}, is_typing \in BOOLEAN :
        handleTypingIndicator(user_id, is_typing)
    \/ \E frame \in LoggedFrames : RecvLogged(frame)
    \/ RecvWebrtcSignal
    \/ Ping
    \/ RecvPong
    \/ \E type \in SignalTypes, target \in Users \cup {NULL} : onSignal(type, target)

ChatSpec == Init /\ [][ChatNext]_vars

(***************************************************************************)
(* Vocabulary of the properties.                                           *)
(***************************************************************************)
\* local media handles acquired and not stopped
LiveStreams == {i \in Slots : stream[i].state = "live"}
\* negotiation handles created and not closed
OpenPcs == {i \in Slots : PcOpen(i)}
\* an await of startCall / answerCall completes successfully
StepResolve(i) ==
    \/ GetUserMediaResolve(i)
    \/ CreateOfferResolve(i)
    \/ SetRemoteDescriptionResolve(i)
    \/ CreateAnswerResolve(i)
    \/ SetLocalDescriptionResolve(i)
\* an await of startCall / answerCall fails
StepReject(i) == GetUserMediaReject(i) \/ NegotiationReject(i)

(***************************************************************************)
(* C1.  At most one Call Session: at no time is there more than one local  *)
(* media handle acquired and not released, nor more than one negotiation   *)
(* handle created and not closed.                                          *)
(* Violated: an offer accepted while a call is being set up, or a          *)
(* startCall issued after an ended call whose media acquisition is still   *)
(* pending, creates a second pair of handles.                              *)
(***************************************************************************)
C1_AtMostOneCallSession ==
    /\ Cardinality(LiveStreams) <= 1
    /\ Cardinality(OpenPcs) <= 1

(***************************************************************************)
(* C2.  An offer received while idle with no negotiation handle, which the *)
(* user accepts, starts answerCall: status becomes connecting and the      *)
(* remote party is the offer's from_user.                                  *)
(* Violated: handleRemoteSignal returns before the prompt when no          *)
(* negotiation handle is held.                                             *)
(***************************************************************************)
C2_OfferAcceptedFromIdle ==
    [][\A u \in Users :
        (callStatus = "idle" /\ NoPeerConnection /\ calls < MaxCalls
            /\ RecvOffer(u, TRUE))
        => (callStatus' = "connecting" /\ remoteUserId' = u
            /\ task'[calls'].kind = "answer" /\ task'[calls'].target = u)]_vars

(***************************************************************************)
(* C3.  An offer received while idle, which the user rejects, emits        *)
(* exactly one call-rejected signal to the offer's from_user, leaves the   *)
(* status idle and acquires no handle.                                     *)
(* Violated: the offer is dropped before the prompt, nothing is emitted.   *)
(***************************************************************************)
C3_OfferRejectedFromIdle ==
    [][\A u \in Users :
        (callStatus = "idle" /\ RecvOffer(u, FALSE))
        => (/\ last'.signal = handleSignal("call-rejected", u)
            /\ callStatus' = "idle"
            /\ UNCHANGED << refVars, stream, pcs, task >>)]_vars

(***************************************************************************)
(* C4.  An offer received while the status is not idle is ignored: no      *)
(* signal is emitted, no handle is created and the Call Session is left    *)
(* unchanged.                                                              *)
(* Violated: with a negotiation handle held the user is prompted, and the  *)
(* offer is answered or rejected.                                          *)
(***************************************************************************)
C4_OfferIgnoredWhenBusy ==
    [][\A u \in Users, accept \in BOOLEAN :
        (callStatus # "idle" /\ RecvOffer(u, accept))
        => (/\ last'.signal = NoSignal
            /\ UNCHANGED << sigVars, refVars, task, stream, pcs, remote,
                            calls >>)]_vars

C6_EndCallSignalsPeer ==
    [][(callStatus # "idle" /\ EndCall)
        => (/\ last'.signal = IF remoteUserId # NULL
                              THEN handleSignal("call-ended", remoteUserId)
                              ELSE NoSignal
            /\ callStatus' = "idle"
            /\ remoteUserId' = NULL
            /\ isMuted' = FALSE
            /\ localStreamRef' = NoHandle
            /\ peerConnectionRef' = NoHandle)]_vars

(***************************************************************************)
(* C7.  Whenever the status is idle, neither the local media handle nor    *)
(* the negotiation handle is held.                                         *)
(* Violated: call-rejected and the catch blocks of startCall / answerCall  *)
(* set the status to idle and release nothing.                             *)
(***************************************************************************)
C7_IdleHoldsNoHandle ==
    callStatus = "idle" =>
        localStreamRef = NoHandle /\ peerConnectionRef = NoHandle

(***************************************************************************)
(* C8.  A failing step of startCall reverts the status to idle, surfaces   *)
(* an error, emits no offer and leaves no negotiation handle held.         *)
(* Violated: a failure of createOffer or setLocalDescription leaves the    *)
(* connection open in peerConnectionRef.                                   *)
(***************************************************************************)
C8_StartCallFailureCleansUp ==
    [][\A i \in Slots :
        (task[i].kind = "start" /\ StepReject(i))
        => (/\ callStatus' = "idle"
            /\ last'.alert
            /\ last'.signal = NoSignal
            /\ peerConnectionRef' = NoHandle)]_vars

(***************************************************************************)
(* C9.  Once the call has been ended (the status is idle again), the       *)
(* completion of a step of startCall / answerCall still in flight is       *)
(* discarded: it stores no handle, emits no signal and changes no Call     *)
(* Session state.                                                          *)
(* Violated: the continuation runs without looking at the status.          *)
(***************************************************************************)
C9_StaleCompletionDiscarded ==
    [][\A i \in Slots :
        (callStatus = "idle" /\ StepResolve(i))
        => (/\ last'.signal = NoSignal
            /\ UNCHANGED << sigVars, refVars, stream, pcs >>)]_vars

(***************************************************************************)
(* C10.  As stated: the transport closing while the call is connected with *)
(* remoteUserId set drives the call status to idle and releases the local  *)
(* and remote media.                                                       *)
(* Violated: websocket.onclose and onerror touch the connection status     *)
(* only.                                                                   *)
(***************************************************************************)
TransportDisconnects == wsState = "OPEN" /\ wsState' = "CLOSED"

C10_DisconnectEndsCall ==
    [][(TransportDisconnects /\ callStatus = "connected" /\ remoteUserId # NULL)
        => (/\ callStatus' = "idle"
            /\ localStreamRef' = NoHandle
            /\ remoteStreamRef' = NoHandle)]_vars

(***************************************************************************)
(* C10, amended.  The transport closing while the call is connected with   *)
(* remoteUserId set leaves the Call Session as it is: the status stays     *)
(* connected, the handles stay held, no signal is emitted and no notice is *)
(* raised; only the connection status changes.                             *)
(***************************************************************************)
C10_DisconnectKeepsCall ==
    [][(TransportDisconnects /\ callStatus = "connected" /\ remoteUserId # NULL)
        => (/\ UNCHANGED << sigVars, refVars, stream, pcs, remote >>
            /\ last'.signal = NoSignal
            /\ ~last'.alert
            /\ connectionStatus' \in {"disconnected", "error"})]_vars

\* the transport has just closed and the call is still connected
C10_Witness ==
    /\ last.op \in {"onclose", "onerror"}
    /\ wsState = "CLOSED"
    /\ callStatus = "connected"
    /\ remoteUserId \in Users
    /\ localStreamRef # NoHandle
    /\ stream[localStreamRef].state = "live"
    /\ peerConnectionRef # NoHandle
    /\ pcs[peerConnectionRef].state = "connected"

(***************************************************************************)
(* C11.  When a peer connection reports disconnected or failed, the call   *)
(* is torn down (status idle, no handle held) and, if the call was active  *)
(* with remoteUserId set, exactly one call-ended signal targeted at        *)
(* remoteUserId is emitted; otherwise none.                                *)
(* Violated: the callback runs the handleEndCall of the render in which    *)
(* the connection was created, where isInCall is still false, so no        *)
(* call-ended is emitted for an active call.                               *)
(***************************************************************************)
C11_ConnectionLossSignalsPeer ==
    [][\A i \in Slots, state \in {"disconnected", "failed"} :
        PcLost(i, state)
        => (/\ callStatus' = "idle"
            /\ localStreamRef' = NoHandle
            /\ remoteStreamRef' = NoHandle
            /\ peerConnectionRef' = NoHandle
            /\ last'.signal = IF isInCall /\ remoteUserId # NULL
                              THEN handleSignal("call-ended", remoteUserId)
                              ELSE NoSignal)]_vars

(***************************************************************************)
(* C12.  Every change of the call status is one of idle->calling,          *)
(* idle->connecting, calling->connected, connecting->connected, or a       *)
(* change to idle.                                                         *)
(* Violated: an offer accepted while calling or connected moves the status *)
(* to connecting, and a connection left open by an exit to idle moves the  *)
(* status from idle to connected.                                          *)
(***************************************************************************)
C12_StatusTransitions ==
    [][callStatus' # callStatus
        => \/ callStatus' = "idle"
           \/ callStatus = "idle" /\ callStatus' \in {"calling", "connecting"}
           \/ callStatus \in {"calling", "connecting"}
                /\ callStatus' = "connected"]_vars

(***************************************************************************)
(* C13.  A call-rejected signal received while calling or connecting       *)
(* reverts the status to idle and surfaces a notice; received while idle   *)
(* or connected it changes no Call Session state.                          *)
(* Violated: the case sets the status to idle whatever the status is, so   *)
(* an established call is marked idle.                                     *)
(***************************************************************************)
C13_CallRejectedOnlyWhileSettingUp ==
    [][RecvCallRejected
        => IF callStatus \in {"calling", "connecting"}
           THEN callStatus' = "idle" /\ last'.alert
           ELSE UNCHANGED << sigVars, refVars, stream, pcs, remote >>]_vars

(***************************************************************************)
(* C14.  An answer signal is applied as the remote description only to a   *)
(* negotiation handle that is held, and never changes the status (nor any  *)
(* other Call Session field); the status becomes connected only by the     *)
(* connection reporting the connected state.                               *)
(***************************************************************************)
C14_AnswerLeavesStatus ==
    [][/\ \A ok \in BOOLEAN :
            RecvAnswer(ok)
            => (/\ UNCHANGED sigVars
                /\ last'.signal = NoSignal
                /\ NoPeerConnection
                    => (UNCHANGED << pcs, remote, refVars >>
                        /\ last'.pc = NoHandle)
                /\ pcs' # pcs
                    => (/\ peerConnectionRef # NoHandle
                        /\ pcs' = [pcs EXCEPT
                                     ![peerConnectionRef].remoteDesc = TRUE]))
       /\ (callStatus' = "connected" /\ callStatus # "connected")
            => \E i \in Slots : PcConnected(i)]_vars

\* an answer has just been applied to the connection of a call being placed
C14_Witness ==
    /\ last.op = "answer"
    /\ last.pc # NoHandle
    /\ peerConnectionRef = last.pc
    /\ remoteStreamRef = last.pc
    /\ task[last.pc].kind = "start"
    /\ pcs[last.pc].remoteDesc
    /\ pcs[last.pc].state = "new"
    /\ callStatus = "calling"

(***************************************************************************)
(* C15.  An ice-candidate signal is applied to the negotiation handle held *)
(* whatever the status is; with no handle held it is dropped.  In both     *)
(* cases it raises nothing, emits no signal and changes no Call Session    *)
(* state other than the candidates of the handle.                          *)
(***************************************************************************)
C15_IceCandidateApplied ==
    [][\A ok \in BOOLEAN :
        RecvIceCandidate(ok)
        => (/\ last'.pc = peerConnectionRef
            /\ last'.signal = NoSignal
            /\ ~last'.alert
            /\ UNCHANGED << sigVars, refVars, task, stream, remote >>
            /\ NoPeerConnection => UNCHANGED pcs
            /\ pcs' # pcs
                => (/\ peerConnectionRef # NoHandle
                    /\ pcs' = [pcs EXCEPT
                                 ![peerConnectionRef].candidates = TRUE]))]_vars

\* a candidate has been applied before the call is connected
C15_Witness ==
    /\ last.op = "ice-candidate"
    /\ last.pc # NoHandle
    /\ peerConnectionRef = last.pc
    /\ pcs[last.pc].candidates
    /\ callStatus = "connecting"

(***************************************************************************)
(* C16.  toggleMute changes nothing when no local media handle is held;    *)
(* when one is held it flips the enabled flag of the audio track and sets  *)
(* muted to its negation, and leaves the status, remoteUserId and the      *)
(* handles unchanged.  It never emits a signal.                            *)
(***************************************************************************)
C16_ToggleMuteIsLocal ==
    [][toggleMute
        => (/\ last'.signal = NoSignal
            /\ UNCHANGED << callStatus, isInCall, isConnecting, remoteUserId,
                            voiceCallActive, refVars, task, pcs, remote >>
            /\ IF localStreamRef = NoHandle
               THEN UNCHANGED << stream, isMuted >>
               ELSE /\ stream' = [stream EXCEPT ![localStreamRef].enabled = ~@]
                    /\ isMuted' = ~stream'[localStreamRef].enabled)]_vars

\* the microphone of a connected call has just been muted
C16_Witness ==
    /\ last.op = "toggleMute"
    /\ localStreamRef # NoHandle
    /\ ~stream[localStreamRef].enabled
    /\ isMuted
    /\ callStatus = "connected"

(***************************************************************************)
(* C17.  Call setup never fails silently: when startCall hands its offer   *)
(* to the transport, either the offer goes on the wire or a failure is     *)
(* surfaced and the status returns to idle.                                *)
(* Violated: with the socket not open handleSignal drops the offer without *)
(* notice and the status stays calling.                                    *)
(***************************************************************************)
C17_OfferDeliveredOrNoticed ==
    [][\A i \in Slots :
        (task[i].kind = "start" /\ SetLocalDescriptionResolve(i))
        => \/ last'.signal.type = "offer" /\ last'.signal.wire
           \/ last'.alert /\ callStatus' = "idle"]_vars

(***************************************************************************)
(* C18.  After the transport has closed, when the reconnect delay expires  *)
(* a reconnection attempt is made: a new connection is being established   *)
(* and the connection status is reconnecting.                              *)
(* Violated: the timeout callback sets the status only; no socket is ever  *)
(* created again, so the status stays reconnecting for good.               *)
(***************************************************************************)
C18_ReconnectAttempted ==
    [][ReconnectTimer
        => (connectionStatus' = "reconnecting"
            /\ wsState' = "CONNECTING")]_vars

(***************************************************************************)
(* C19.  A ping envelope is written only by the keep-alive interval, only  *)
(* while the connection status is connected and the socket is open; the    *)
(* interval and a pong change no state, and the connection status changes  *)
(* only through the socket's events and the reconnect timeout (never       *)
(* through a pong that is missing).                                        *)
(***************************************************************************)
C19_PingOnlyWhileConnected ==
    [][/\ last'.signal.type = "ping"
            => (/\ Ping
                /\ connectionStatus = "connected"
                /\ wsState = "OPEN"
                /\ last'.signal.wire)
       /\ (Ping \/ RecvPong) => UNCHANGED << wsVars, chatVars, callVars >>
       /\ connectionStatus' # connectionStatus
            => (WsOpen \/ WsError \/ WsClose \/ ReconnectTimer)]_vars

\* a ping has just been written to the open socket
C19_Witness ==
    /\ last.op = "ping"
    /\ last.signal.type = "ping"
    /\ last.signal.wire
    /\ connectionStatus = "connected"
    /\ wsState = "OPEN"

(***************************************************************************)
(* C20.  While the socket is not open, sending an envelope (chat_message,  *)
(* typing, webrtc_signal, ping) puts nothing on the wire, raises nothing   *)
(* and leaves the connection status unchanged.                             *)
(***************************************************************************)
C20_SendWhileClosedIsNoOp ==
    [][wsState # "OPEN"
        => (/\ ~last'.signal.wire
            /\ ~last'.alert
            /\ last'.signal # NoSignal => UNCHANGED wsVars)]_vars

\* a chat_message has been dropped: the socket closed while its fetch ran
C20_Witness ==
    /\ last.op = "sendMessage"
    /\ last.signal.type = "chat_message"
    /\ ~last.signal.wire
    /\ wsState = "CLOSED"
    /\ connectionStatus # "connected"

(***************************************************************************)
(* C21.  An inbound frame is routed by its type: a chat_message frame      *)
(* changes the timeline only, a typing_indicator frame the typing registry *)
(* only, a webrtc_signal frame the call state machine only; a frame that   *)
(* is malformed or of an unrecognised type is dropped: it changes no state *)
(* and raises nothing.                                                     *)
(* Violated: a chat_message frame without a message throws while React     *)
(* renders and takes the component tree down; a typing_indicator frame     *)
(* without a user_id puts an undefined entry into the typing registry.     *)
(***************************************************************************)
C21_FramesRoutedOrDropped ==
    [][/\ (\E sender \in Senders : RecvChatMessage(sender))
            => UNCHANGED << mounted, typingUsers, callVars >>
       /\ (\E is_typing \in BOOLEAN, user_id \in Typists :
                handleTypingIndicator(user_id, is_typing))
            => UNCHANGED << mounted, messages, callVars >>
       /\ RecvWebrtcSignal
            => UNCHANGED << mounted, messages, typingUsers >>
       /\ (\/ \E frame \in LoggedFrames : RecvLogged(frame)
           \/ RecvChatMessageWithoutMessage
           \/ \E is_typing \in BOOLEAN : handleTypingIndicator(NULL, is_typing))
            => UNCHANGED << mounted, messages, typingUsers, callVars >>]_vars

(***************************************************************************)
(* C22.  A submit whose content is empty after trimming is a no-op: no     *)
(* message is appended, no persistence call is made, no envelope is        *)
(* written and the input is not cleared.                                   *)
(***************************************************************************)
C22_BlankSubmitIsNoOp ==
    [][(newMessage \in {"", " "} /\ handleSubmit)
        => (/\ last'.signal = NoSignal
            /\ UNCHANGED << chatVars, callVars, wsVars >>)]_vars

\* the form has been submitted with a blank input, which is still there
C22_Witness ==
    /\ last.op = "handleSubmit"
    /\ last.signal = NoSignal
    /\ newMessage = " "
    /\ connectionStatus = "connected"

(***************************************************************************)
(* C23.  Once the persistence call of a submit has settled, the            *)
(* chat_message envelope is written to the open socket whether the call    *)
(* succeeded or failed.                                                    *)
(* Violated: a failed call throws into the catch of sendMessage, which     *)
(* skips ws.send.                                                          *)
(***************************************************************************)
C23_EnvelopeSentWhateverTheOutcome ==
    [][(wsState = "OPEN" /\ (FetchOk \/ \E reason \in Reasons : FetchFail(reason)))
        => (/\ last'.signal.type = "chat_message"
            /\ last'.signal.wire)]_vars

(***************************************************************************)
(* C24.  A submit with content appends the user's message to the timeline  *)
(* at once, before the persistence call, and clears the input.             *)
(* Violated: handleSubmit and sendMessage never append the user's message. *)
(***************************************************************************)
C24_SubmitAppendsLocally ==
    [][(newMessage \notin {"", " "} /\ handleSubmit)
        => (/\ newMessage' = ""
            /\ Len(messages') = Len(messages) + 1
            /\ SubSeq(messages', 1, Len(messages)) = messages
            /\ messages'[Len(messages')].sender = "user")]_vars

\* the number of system messages of a timeline
SystemMessages(timeline) ==
    Len(SelectSeq(timeline, LAMBDA m : m.sender = "system"))

(***************************************************************************)
(* C25.  A failed persistence call appends exactly one system message,     *)
(* carrying the failure reason, to the end of the timeline; a successful   *)
(* call appends none, and nothing else adds or removes a system message.   *)
(***************************************************************************)
C25_OneSystemMessagePerFailure ==
    [][/\ \A reason \in Reasons :
            FetchFail(reason)
            => messages' = Append(messages, Message("system", reason))
       /\ FetchOk => messages' = messages
       /\ SystemMessages(messages') # SystemMessages(messages)
            => \E reason \in Reasons : FetchFail(reason)]_vars

\* a persistence call has failed and its system message ends the timeline
C25_Witness ==
    /\ last.op = "sendMessage-failed"
    /\ Len(messages) = 2
    /\ messages[1].sender = "agent"
    /\ messages[2] = Message("system", "status")

(***************************************************************************)
(* C26.  The timeline is append-only: every step leaves it as it is or     *)
(* adds one message at its end, and each chat_message frame received adds  *)
(* its message once, whether or not an equal message is already there.     *)
(***************************************************************************)
C26_TimelineAppendOnly ==
    [][/\ \/ messages' = messages
          \/ /\ Len(messages') = Len(messages) + 1
             /\ SubSeq(messages', 1, Len(messages)) = messages
       /\ \A sender \in Senders :
            RecvChatMessage(sender)
            => messages' = Append(messages, Message(sender, "hi"))]_vars

\* two equal chat_message frames have been received: both are in the timeline
C26_Witness ==
    /\ last.op = "chat_message"
    /\ Len(messages) = 2
    /\ messages[1] = messages[2]
    /\ messages[2] = Message("agent", "hi")

(***************************************************************************)
(* C27.  The typing envelopes written to the socket alternate, beginning   *)
(* with is_typing true: a true is written only after a false (or as the    *)
(* first), a false only after a true.                                      *)
(* Violated: handleSubmit writes a typing false without resetting isTyping *)
(* or clearing the timeout, whose callback then writes a second false.     *)
(***************************************************************************)
C27_TypingAlternates ==
    [][(last'.signal.type = "typing" /\ last'.signal.wire)
        => IF last'.signal.data
           THEN typingSent \in {"none", "false"}
           ELSE typingSent = "true"]_vars

(***************************************************************************)
(* C28.  The typing registry is a set driven by the last frame of each     *)
(* user: after a typing_indicator frame the user is in the registry        *)
(* exactly when the frame's is_typing is true and the other entries are    *)
(* as before; the registry never holds an id twice, and nothing but a      *)
(* typing_indicator frame changes it (no timeout removes an entry).        *)
(***************************************************************************)
C28_TypingRegistryIsASet ==
    [][/\ Cardinality(Ids(typingUsers')) = Len(typingUsers')
       /\ \A user_id \in Typists \cup {NULL}, is_typing \in BOOLEAN :
            handleTypingIndicator(user_id, is_typing)
            => /\ (user_id \in Ids(typingUsers')) = is_typing
               /\ Ids(typingUsers') \ {user_id} = Ids(typingUsers) \ {user_id}
       /\ typingUsers' # typingUsers
            => \E user_id \in Typists \cup {NULL}, is_typing \in BOOLEAN :
                handleTypingIndicator(user_id, is_typing)]_vars

\* typing starts have been received for two ids: the registry holds both
C28_Witness ==
    /\ last.op = "typing_indicator"
    /\ Len(typingUsers) = 2
    /\ typingUsers[1] = "u2"

(***************************************************************************)
(* C29.  Two peers, a reliable ordered transport, no failure, no hang-up:  *)
(* A starts a call to B, B accepts, B emits an answer and both reach       *)
(* connected.  For the peer in B's place, which has started no call, the   *)
(* accepted offer begins answerCall.                                       *)
(* Violated: B holds no negotiation handle, so its handleRemoteSignal      *)
(* drops the offer before the prompt (see C2); B emits no answer and       *)
(* neither peer reaches connected.                                         *)
(***************************************************************************)
C29_CalleeAnswersTheOffer ==
    [][\A from_user \in Users :
        (calls = 0 /\ RecvOffer(from_user, TRUE))
        => (/\ calls' = 1
            /\ task'[1].kind = "answer"
            /\ isConnecting')]_vars

(***************************************************************************)
(* C30.  Every signal a call emits is addressed to the call's remote       *)
(* party: the targetUserId of startCall for the caller, the offer's        *)
(* from_user for the callee; an ice-candidate is never addressed to the    *)
(* party of an earlier render.                                             *)
(* Violated: onicecandidate addresses the remoteUserId of the render in    *)
(* which answerCall was invoked, which is not yet the offer's from_user.   *)
(***************************************************************************)
C30_SignalsAddressTheRemoteParty ==
    [][\A i \in Slots :
        (SetLocalDescriptionResolve(i) \/ PcIceCandidate(i))
        => last'.signal.target_user = task[i].target]_vars

(***************************************************************************)
(* C31.  The flags follow the call status in every reachable state:        *)
(* isInCall holds exactly when the status is connected, isConnecting       *)
(* exactly when it is calling or connecting, and Chat's voiceCallActive    *)
(* equals isInCall.                                                        *)
(* Violated: call-rejected and the catch blocks set the status to idle     *)
(* without looking at isInCall, and an offer accepted in a connected call  *)
(* sets isConnecting and the status connecting while isInCall stays true.  *)
(***************************************************************************)
C31_FlagsFollowStatus ==
    /\ isInCall <=> callStatus = "connected"
    /\ isConnecting <=> callStatus \in {"calling", "connecting"}
    /\ voiceCallActive = isInCall

(***************************************************************************)
(* C32.  A received call-ended signal produces no outbound signal: the     *)
(* teardown it starts does not send a call-ended back to the peer.         *)
(* Violated: case 'call-ended' runs the same handleEndCall as the End Call *)
(* button, which emits call-ended whenever isInCall and remoteUserId are   *)
(* set.                                                                    *)
(***************************************************************************)
C32_CallEndedIsNotEchoed ==
    [][RecvCallEnded => last'.signal = NoSignal]_vars

(***************************************************************************)
(* C33.  Teardown is idempotent: handleEndCall run again in the state a    *)
(* teardown has left (by the End Call button or by a received call-ended)  *)
(* releases no handle again, emits no call-ended and leaves the status     *)
(* idle, remoteUserId null and muted false; the state is the one the first *)
(* teardown left.                                                          *)
(***************************************************************************)
C33_TeardownIsIdempotent ==
    [][(last.op \in {"endCall", "call-ended"} /\ (EndCall \/ RecvCallEnded))
        => (/\ last'.signal = NoSignal
            /\ last'.local = NoHandle
            /\ last'.remote = NoHandle
            /\ last'.pc = NoHandle
            /\ callStatus' = "idle"
            /\ remoteUserId' = NULL
            /\ ~isMuted'
            /\ UNCHANGED << sigVars, refVars, stream, remote, pcs >>)]_vars

\* handleEndCall has run with nothing held, after a call whose three handles
\* an earlier teardown released once each
C33_Witness ==
    /\ last.op = "call-ended"
    /\ last.local = NoHandle /\ last.remote = NoHandle /\ last.pc = NoHandle
    /\ last.signal = NoSignal
    /\ callStatus = "idle"
    /\ calls = 1
    /\ stream[1].stops = 1 /\ remote[1].stops = 1 /\ pcs[1].closes = 1

====
